---- MODULE Spec2Model ----
(***************************************************************************)
(* Variant availability resolution of the product details page, as laid    *)
(* out in ClientProductQuery-improvement.md: createVariantAvailabilityMap  *)
(* (Phase 1, with the low-stock, pre-order, multi-seller and normalized    *)
(* key revisions of the same function), isVariantDisabled, and the         *)
(* enhancedOptions mapping of the ProductDetails component.                *)
(*                                                                         *)
(* Encoding of JavaScript values:                                          *)
(*   - a string is a TLA+ string, except variant names and option values,  *)
(*     which are sequences of one-character strings so that trim() and     *)
(*     toLowerCase() are computed character by character;                  *)
(*   - an absent (undefined or null) numeric field is Undefined, a         *)
(*     non-numeric value in a numeric field is NotANumber; an absent       *)
(*     string field is UndefinedStr;                                       *)
(*   - an object used as a string-keyed record (AvailabilityMap) is a      *)
(*     function whose DOMAIN is the set of its keys.                       *)
(*                                                                         *)
(* The Rollback Plan snippets (lines 931-957) replace the pipeline in an   *)
(* emergency and are not part of it.                                       *)
(***************************************************************************)
EXTENDS Integers, Sequences, FiniteSets, TLC

(***************************************************************************)
(* Bounds of the explored inputs.                                          *)
(***************************************************************************)
MaxQuantity == 2
MaxPrice == 1
MaxThreshold == 1
MaxOffers == 2
MaxVariants == 2
MaxMessages == 3

(***************************************************************************)
(* JavaScript values.                                                      *)
(***************************************************************************)
Undefined == -1
NotANumber == -2
UndefinedStr == "undefined"

InStock == "https://schema.org/InStock"
OutOfStock == "https://schema.org/OutOfStock"
PreOrder == "https://schema.org/PreOrder"
BackOrder == "https://schema.org/BackOrder"
Discontinued == "https://schema.org/Discontinued"
DefaultSeller == "1"

IsNumber(x) == x >= 0

\* a > b of JavaScript: false as soon as one side is not a number
JsGt(a, b) == IsNumber(a) /\ IsNumber(b) /\ a > b

\* a <= b of JavaScript
JsLe(a, b) == IsNumber(a) /\ IsNumber(b) /\ a <= b

\* a ?? b
Coalesce(a, b) == IF a = Undefined THEN b ELSE a

OrEmptyMissing(s) == s

\* s || "" on an optional string
OrEmpty(s) == IF s = UndefinedStr THEN "" ELSE s

(***************************************************************************)
(* Variant names and option values.                                        *)
(***************************************************************************)
Red == <<"R", "e", "d">>
LowerRed == <<"r", "e", "d">>
UpperRed == <<"R", "E", "D">>
PaddedRed == <<" ", "R", "e", "d">>
Blue == <<"B", "l", "u", "e">>

ToLowerChar(c) ==
    CASE c = "R" -> "r"
      [] c = "E" -> "e"
      [] c = "D" -> "d"
      [] c = "B" -> "b"
      [] OTHER -> c

RECURSIVE TrimStart(_)
TrimStart(s) ==
    IF s # <<>> /\ Head(s) = " " THEN TrimStart(Tail(s)) ELSE s

RECURSIVE TrimEnd(_)
TrimEnd(s) ==
    IF s # <<>> /\ s[Len(s)] = " " THEN TrimEnd(SubSeq(s, 1, Len(s) - 1)) ELSE s

Trim(s) == TrimEnd(TrimStart(s))

ToLowerCase(s) == [i \in 1..Len(s) |-> ToLowerChar(s[i])]

normalizeVariantName(name) == ToLowerCase(Trim(name))

(***************************************************************************)
(* State.                                                                  *)
(***************************************************************************)
VARIABLES
    allVariantProducts,   \* [defined, items]: the catalog response's variant list
    options,              \* availableVariations: the option values the selector shows
    lowStockThreshold,    \* second parameter of createVariantAvailabilityMap
    sellerPriority,       \* the multi-seller revision of the offer lookup is in place
    preOrderSupport,      \* the pre-order revision of isAvailable is in place
    normalizeKeys,        \* the normalized-key revision of the map writes is in place
    missingDataPolicy,    \* the policy the caller configured
    variantAvailabilityMap, \* result of the useMemo of ProductDetails
    threw,                \* createVariantAvailabilityMap raised a TypeError
    enhancedOptions,      \* the options handed to SkuSelector
    nodeEnv,              \* process.env.NODE_ENV at the latest build
    consoleLog,           \* the 'Variant Availability Stats' records the console received
    rebuiltMap,           \* result of a second call on the same inputs
    messages,             \* useCart().messages: [defined, items]
    processedMessages,    \* processedMessages.current
    seen,                 \* ERROR messages the effect met since it last ran on an empty list
    pushed,               \* pushToast calls since the effect last ran on an empty list
    pushedBefore,         \* keys pushed before the effect last ran on an empty list
    pc

vars == <<allVariantProducts, options, lowStockThreshold, sellerPriority,
          preOrderSupport, normalizeKeys, missingDataPolicy,
          variantAvailabilityMap, threw, enhancedOptions,
          nodeEnv, consoleLog, rebuiltMap,
          messages, processedMessages, seen, pushed, pushedBefore, pc>>

toastVars == <<messages, processedMessages, seen, pushed, pushedBefore>>

config == <<lowStockThreshold, sellerPriority, preOrderSupport, normalizeKeys,
            missingDataPolicy>>

\* the configuration vocabulary of the resolution engine, read off the revisions
preferredSellerId == IF sellerPriority THEN DefaultSeller ELSE UndefinedStr

acceptedAvailabilityStatuses ==
    IF preOrderSupport THEN {InStock, PreOrder, BackOrder} ELSE {InStock}

(***************************************************************************)
(* createVariantAvailabilityMap.                                           *)
(***************************************************************************)
NoOffer == [availability |-> UndefinedStr, quantity |-> Undefined,
            inventoryLevel |-> Undefined, price |-> Undefined,
            seller |-> UndefinedStr, present |-> FALSE]

\* offers.find(o => o.seller?.identifier === "1"): the first match, or undefined
RECURSIVE FindSeller(_, _)
FindSeller(offers, id) ==
    IF offers = <<>> THEN NoOffer
    ELSE IF Head(offers).seller = id THEN Head(offers)
    ELSE FindSeller(Tail(offers), id)

\* offers?.[0]
FirstOffer(offers) == IF offers = <<>> THEN NoOffer ELSE offers[1]

SelectOfferFirstOnly(offers) == FirstOffer(offers)

\* const offer = ...: the canonical offer of a variant
SelectOffer(offers) ==
    IF sellerPriority
    THEN LET found == FindSeller(offers, DefaultSeller)
         IN  IF found.present THEN found ELSE FirstOffer(offers)
    ELSE FirstOffer(offers)

OfferQuantityInventoryFirst(offer) ==
    IF sellerPriority
    THEN Coalesce(offer.quantity, 0)
    ELSE Coalesce(offer.inventoryLevel, Coalesce(offer.quantity, 0))

\* const quantity = ...
OfferQuantity(offer) ==
    IF sellerPriority
    THEN Coalesce(offer.quantity, 0)
    ELSE Coalesce(offer.quantity, Coalesce(offer.inventoryLevel, 0))

\* const lowPrice = variant.offers?.lowPrice ?? 0
VariantLowPrice(variant) ==
    IF variant.hasOffers THEN Coalesce(variant.lowPrice, 0) ELSE 0

IsAvailableIgnoringPrice(availability, quantity, lowPrice) ==
    IF preOrderSupport
    THEN availability \in {InStock, PreOrder, BackOrder}
    ELSE availability = InStock /\ JsGt(quantity, 0)

IsAvailableOptimistic(availability, quantity, lowPrice) ==
    \/ availability = ""
    \/ IF preOrderSupport
       THEN availability \in {InStock, PreOrder, BackOrder} /\ JsGt(lowPrice, 0)
       ELSE availability = InStock /\ JsGt(quantity, 0) /\ JsGt(lowPrice, 0)

IsAvailableInStockOnly(availability, quantity, lowPrice) ==
    /\ availability = InStock
    /\ JsGt(lowPrice, 0)
    /\ preOrderSupport \/ JsGt(quantity, 0)

\* isAvailable: ...
IsAvailable(availability, quantity, lowPrice) ==
    IF preOrderSupport
    THEN availability \in {InStock, PreOrder, BackOrder} /\ JsGt(lowPrice, 0)
    ELSE availability = InStock /\ JsGt(quantity, 0) /\ JsGt(lowPrice, 0)

IsLowStockStrictlyBelow(quantity, threshold) ==
    JsGt(quantity, 0) /\ JsGt(threshold, quantity)

\* isLowStock: quantity > 0 && quantity <= lowStockThreshold
IsLowStock(quantity, threshold) ==
    JsGt(quantity, 0) /\ JsLe(quantity, threshold)

\* the value written to the map for one variant; a variant without an offers
\* object and one whose offers.offers is absent or empty all give offer = undefined
VariantAvailability(variant) ==
    LET offer == SelectOffer(IF variant.hasOffers THEN variant.offers ELSE <<>>)
        availability == OrEmpty(offer.availability)
        quantity == OfferQuantity(offer)
        lowPrice == VariantLowPrice(variant)
    IN  [isAvailable |-> IsAvailable(availability, quantity, lowPrice),
         isPreOrder |-> preOrderSupport /\ availability = PreOrder,
         isBackOrder |-> preOrderSupport /\ availability = BackOrder,
         isLowStock |-> IsLowStock(quantity, lowStockThreshold),
         quantity |-> quantity,
         availability |-> availability,
         lowPrice |-> lowPrice]

EmptyMap == [k \in {} |-> 0]

KeysOfNormalizedOnly(name) == {normalizeVariantName(name)}

\* the keys one variant is stored under
KeysOf(name) ==
    IF normalizeKeys THEN {normalizeVariantName(name), name} ELSE {name}

\* one step of the reduce
ReduceStep(map, variant) ==
    LET value == VariantAvailability(variant)
        keys == KeysOf(variant.name)
    IN  [k \in DOMAIN map \cup keys |-> IF k \in keys THEN value ELSE map[k]]

RECURSIVE Reduce(_, _)
Reduce(map, items) ==
    IF items = <<>> THEN map
    ELSE Reduce(ReduceStep(map, Head(items)), Tail(items))

createVariantAvailabilityMapUnguarded(variants) ==
    IF ~variants.defined
    THEN [threw |-> TRUE, map |-> EmptyMap]
    ELSE [threw |-> FALSE, map |-> Reduce(EmptyMap, variants.items)]

createVariantAvailabilityMap(variants) ==
    IF ~variants.defined
    THEN [threw |-> FALSE, map |-> EmptyMap]
    ELSE [threw |-> FALSE, map |-> Reduce(EmptyMap, variants.items)]

(***************************************************************************)
(* createVariantAvailabilityMap with the data quality log.                 *)
(***************************************************************************)
Environments == {"development", "production"}

\* what console.log does with a record: print it, drop it (no console
\* attached), or fail to write it; console.log returns normally in all three
Sinks == {"console", "none", "failing"}

\* allVariantProducts.filter(v => v.offers).length
VariantsWithOffers(items) ==
    Cardinality({i \in 1..Len(items) : items[i].hasOffers})

\* allVariantProducts.filter(v => v.offers?.offers?.[0]?.availability).length
VariantsWithAvailability(items) ==
    Cardinality({i \in 1..Len(items) :
        /\ items[i].hasOffers
        /\ OrEmpty(FirstOffer(items[i].offers).availability) # ""})

\* ((variantsWithAvailability / totalVariants) * 100).toFixed(1), in tenths of
\* a percent; 0 / 0 prints as NaN
Coverage(withAvailability, total) ==
    IF total = 0 THEN NotANumber
    ELSE (2000 * withAvailability + total) \div (2 * total)

AvailabilityStats(items) ==
    [total |-> Len(items),
     withOffers |-> VariantsWithOffers(items),
     withAvailability |-> VariantsWithAvailability(items),
     coverage |-> Coverage(VariantsWithAvailability(items), Len(items))]

\* if (process.env.NODE_ENV === 'development') console.log(...)
ConsoleOutput(items, env, sink) ==
    IF env = "development" /\ sink = "console"
    THEN <<AvailabilityStats(items)>>
    ELSE <<>>

createVariantAvailabilityMapAbortingOnLog(variants, env, sink) ==
    LET result == createVariantAvailabilityMap(variants)
    IN  IF ~variants.defined \/ result.threw
        THEN [threw |-> result.threw, map |-> result.map, log |-> <<>>]
        ELSE [threw |-> FALSE,
              map |-> IF env = "development" /\ sink = "failing"
                      THEN EmptyMap ELSE result.map,
              log |-> ConsoleOutput(variants.items, env, sink)]

\* the function with the log in place: the log sits after the guard and the
\* reduce, and the map is returned after it
createVariantAvailabilityMapWithStats(variants, env, sink) ==
    LET result == createVariantAvailabilityMap(variants)
    IN  IF ~variants.defined \/ result.threw
        THEN [threw |-> result.threw, map |-> result.map, log |-> <<>>]
        ELSE [threw |-> FALSE,
              map |-> result.map,
              log |-> ConsoleOutput(variants.items, env, sink)]

(***************************************************************************)
(* isVariantDisabled and the enhanced options.                             *)
(***************************************************************************)
isVariantDisabledPessimistic(optionValue, availabilityMap) ==
    IF optionValue \notin DOMAIN availabilityMap THEN TRUE
    ELSE ~availabilityMap[optionValue].isAvailable

isVariantDisabledInverted(optionValue, availabilityMap) ==
    IF optionValue \notin DOMAIN availabilityMap THEN FALSE
    ELSE availabilityMap[optionValue].isAvailable

isVariantDisabled(optionValue, availabilityMap) ==
    IF optionValue \notin DOMAIN availabilityMap THEN FALSE
    ELSE ~availabilityMap[optionValue].isAvailable

\* variantData?.isLowStock && { 'data-low-stock': 'true' }
HasLowStockAttribute(optionValue, availabilityMap) ==
    /\ optionValue \in DOMAIN availabilityMap
    /\ availabilityMap[optionValue].isLowStock

EnhanceOption(optionValue, availabilityMap) ==
    [value |-> optionValue,
     disabled |-> isVariantDisabled(optionValue, availabilityMap),
     lowStock |-> HasLowStockAttribute(optionValue, availabilityMap)]

(***************************************************************************)
(* Catalog responses explored.                                             *)
(***************************************************************************)
SeqsUpTo(S, n) == UNION {[1..m -> S] : m \in 0..n}

Availabilities == {InStock, OutOfStock, PreOrder, BackOrder, Discontinued, UndefinedStr}

\* one variant, one offer, every combination of the fields the classifier reads
ClassifierOffers ==
    [availability : Availabilities,
     quantity : {Undefined, NotANumber} \cup (0..MaxQuantity),
     inventoryLevel : {Undefined, 1},
     price : {Undefined},
     seller : {DefaultSeller},
     present : {TRUE}]

ClassifierResponses ==
    {<<[name |-> Red, hasOffers |-> TRUE, lowPrice |-> p, offers |-> <<o>>]>> :
        p \in {Undefined, NotANumber} \cup (0..MaxPrice), o \in ClassifierOffers}

\* one variant, several sellers
SellerOffers ==
    {[availability |-> a, quantity |-> IF a = InStock THEN 1 ELSE 0,
      inventoryLevel |-> Undefined, price |-> IF a = InStock THEN 1 ELSE 0,
      seller |-> s, present |-> TRUE] :
        a \in {InStock, OutOfStock}, s \in {DefaultSeller, "2", UndefinedStr}}

SellerResponses ==
    {<<[name |-> Red, hasOffers |-> TRUE, lowPrice |-> p, offers |-> os]>> :
        p \in {0, 1}, os \in SeqsUpTo(SellerOffers, MaxOffers)}

\* several variants under colliding names
InStockOffer == [availability |-> InStock, quantity |-> 1, inventoryLevel |-> Undefined,
                 price |-> 1, seller |-> DefaultSeller, present |-> TRUE]

OutOfStockOffer == [availability |-> OutOfStock, quantity |-> 0, inventoryLevel |-> Undefined,
                    price |-> 0, seller |-> DefaultSeller, present |-> TRUE]

NamedVariants ==
    {[name |-> n, hasOffers |-> s.hasOffers, lowPrice |-> s.lowPrice, offers |-> s.offers] :
        n \in {Red, LowerRed, PaddedRed},
        s \in {[hasOffers |-> FALSE, lowPrice |-> Undefined, offers |-> <<>>],
               [hasOffers |-> TRUE, lowPrice |-> 1, offers |-> <<InStockOffer>>],
               [hasOffers |-> TRUE, lowPrice |-> 0, offers |-> <<OutOfStockOffer>>]}}

VariantListResponses == SeqsUpTo(NamedVariants, MaxVariants)

CatalogResponses ==
    {[defined |-> FALSE, items |-> <<>>]} \cup
    {[defined |-> TRUE, items |-> r] :
        r \in ClassifierResponses \cup SellerResponses \cup VariantListResponses}

OptionValues == <<Red, LowerRed, UpperRed, PaddedRed, Blue>>

(***************************************************************************)
(* The pipeline: a catalog response arrives, the useMemo of ProductDetails   *)
(* builds the map, the options are enhanced for SkuSelector.               *)
(***************************************************************************)
Init ==
    /\ allVariantProducts \in CatalogResponses
    /\ options = OptionValues
    /\ lowStockThreshold \in 0..MaxThreshold
    /\ sellerPriority \in BOOLEAN
    /\ preOrderSupport \in BOOLEAN
    /\ normalizeKeys \in BOOLEAN
    /\ missingDataPolicy \in {"Optimistic", "Pessimistic"}
    /\ variantAvailabilityMap = EmptyMap
    /\ threw = FALSE
    /\ enhancedOptions = <<>>
    /\ nodeEnv = "production"
    /\ consoleLog = <<>>
    /\ rebuiltMap = EmptyMap
    /\ messages = [defined |-> FALSE, items |-> <<>>]
    /\ processedMessages = {}
    /\ seen = {}
    /\ pushed = <<>>
    /\ pushedBefore = {}
    /\ pc = "fetched"

BuildAvailabilityMap ==
    /\ pc = "fetched"
    /\ \E sink \in Sinks :
         LET result == createVariantAvailabilityMapWithStats(allVariantProducts,
                                                             nodeEnv, sink)
         IN  /\ variantAvailabilityMap' = result.map
             /\ threw' = result.threw
             /\ consoleLog' = consoleLog \o result.log
             /\ pc' = IF result.threw THEN "failed" ELSE "built"
    /\ UNCHANGED <<allVariantProducts, options, config, enhancedOptions,
                   nodeEnv, rebuiltMap, toastVars>>

RenderOptions ==
    /\ pc = "built"
    /\ enhancedOptions' =
          [i \in 1..Len(options) |-> EnhanceOption(options[i], variantAvailabilityMap)]
    /\ pc' = "rendered"
    /\ UNCHANGED <<allVariantProducts, options, config, variantAvailabilityMap, threw,
                   nodeEnv, consoleLog, rebuiltMap, toastVars>>

Next == BuildAvailabilityMap \/ RenderOptions

Spec == Init /\ [][Next]_vars

(***************************************************************************)
(* The same inputs built twice: the component re-renders, or the page is   *)
(* built again elsewhere, with whatever NODE_ENV and console it finds.     *)
(***************************************************************************)
DiagnosticVariants == {v \in NamedVariants : v.name \in {Red, LowerRed}}

DiagnosticResponses ==
    {[defined |-> FALSE, items |-> <<>>]} \cup
    {[defined |-> TRUE, items |-> r] : r \in SeqsUpTo(DiagnosticVariants, MaxVariants)}

InitDiagnostics ==
    /\ allVariantProducts \in DiagnosticResponses
    /\ options = OptionValues
    /\ lowStockThreshold \in 0..MaxThreshold
    /\ sellerPriority \in BOOLEAN
    /\ preOrderSupport \in BOOLEAN
    /\ normalizeKeys \in BOOLEAN
    /\ missingDataPolicy \in {"Optimistic", "Pessimistic"}
    /\ variantAvailabilityMap = EmptyMap
    /\ threw = FALSE
    /\ enhancedOptions = <<>>
    /\ nodeEnv \in Environments
    /\ consoleLog = <<>>
    /\ rebuiltMap = EmptyMap
    /\ messages = [defined |-> FALSE, items |-> <<>>]
    /\ processedMessages = {}
    /\ seen = {}
    /\ pushed = <<>>
    /\ pushedBefore = {}
    /\ pc = "fetched"

Rebuild ==
    /\ pc = "built"
    /\ \E env \in Environments, sink \in Sinks :
         LET result == createVariantAvailabilityMapWithStats(allVariantProducts,
                                                             env, sink)
         IN  /\ rebuiltMap' = result.map
             /\ nodeEnv' = env
             /\ consoleLog' = consoleLog \o result.log
             /\ pc' = "rebuilt"
    /\ UNCHANGED <<allVariantProducts, options, config, variantAvailabilityMap, threw,
                   enhancedOptions, toastVars>>

NextDiagnostics == BuildAvailabilityMap \/ Rebuild

SpecDiagnostics == InitDiagnostics /\ [][NextDiagnostics]_vars

(***************************************************************************)
(* The Toast component: the effect that sends cart messages to the toasts. *)
(***************************************************************************)
Statuses == {"ERROR", "WARNING"}

Texts == {"out of stock", "price changed"}

CartMessage == [status : Statuses, text : Texts]

CartMessages ==
    {[defined |-> FALSE, items |-> <<>>]} \cup
    {[defined |-> TRUE, items |-> l] : l \in SeqsUpTo(CartMessage, MaxMessages)}

\* `${message.status}-${message.text}`
messageKey(message) == message.status \o "-" \o message.text

\* the body of the forEach callback: state of the set and the toasts it pushes
ProcessMessage(processed, message) ==
    IF message.status = "ERROR" /\ messageKey(message) \notin processed
    THEN [processed |-> processed \cup {messageKey(message)},
          toasts |-> <<[message |-> message.text, status |-> message.status]>>]
    ELSE [processed |-> processed, toasts |-> <<>>]

\* messages.forEach(...)
RECURSIVE ForEachMessage(_, _)
ForEachMessage(processed, items) ==
    IF items = <<>> THEN [processed |-> processed, toasts |-> <<>>]
    ELSE LET first == ProcessMessage(processed, Head(items))
             rest == ForEachMessage(first.processed, Tail(items))
         IN  [processed |-> rest.processed, toasts |-> first.toasts \o rest.toasts]

ClearNever(processed, items) == processed

\* if (messages.length === 0) processedMessages.current.clear()
ClearIfEmpty(processed, items) == IF Len(items) = 0 THEN {} ELSE processed

ErrorsIn(items) == {items[i] : i \in {j \in 1..Len(items) : items[j].status = "ERROR"}}

PushedKeys == {pushed[i].status \o "-" \o pushed[i].message : i \in 1..Len(pushed)}

InitToast ==
    /\ allVariantProducts = [defined |-> FALSE, items |-> <<>>]
    /\ options = OptionValues
    /\ lowStockThreshold = 0
    /\ sellerPriority = FALSE
    /\ preOrderSupport = FALSE
    /\ normalizeKeys = FALSE
    /\ missingDataPolicy = "Optimistic"
    /\ variantAvailabilityMap = EmptyMap
    /\ threw = FALSE
    /\ enhancedOptions = <<>>
    /\ nodeEnv = "production"
    /\ consoleLog = <<>>
    /\ rebuiltMap = EmptyMap
    /\ messages \in CartMessages
    /\ processedMessages = {}
    /\ seen = {}
    /\ pushed = <<>>
    /\ pushedBefore = {}
    /\ pc = "mounted"

\* the cart store replaces its messages
CartUpdate ==
    /\ pc = "mounted"
    /\ \E m \in CartMessages :
         /\ m # messages
         /\ messages' = m
    /\ UNCHANGED <<allVariantProducts, options, config, variantAvailabilityMap, threw,
                   enhancedOptions, nodeEnv, consoleLog, rebuiltMap,
                   processedMessages, seen, pushed, pushedBefore, pc>>

\* the effect runs: after mount, after messages changed, or after pushToast
\* changed while the messages stayed the same
RunEffect ==
    /\ pc = "mounted"
    /\ IF ~messages.defined
       THEN UNCHANGED <<processedMessages, seen, pushed, pushedBefore>>
       ELSE LET result == ForEachMessage(processedMessages, messages.items)
            IN  /\ processedMessages' = ClearIfEmpty(result.processed, messages.items)
                /\ IF Len(messages.items) = 0
                   THEN /\ seen' = {}
                        /\ pushed' = <<>>
                        /\ pushedBefore' = pushedBefore \cup PushedKeys
                   ELSE /\ seen' = seen \cup ErrorsIn(messages.items)
                        /\ pushed' = pushed \o result.toasts
                        /\ UNCHANGED pushedBefore
    /\ UNCHANGED <<allVariantProducts, options, config, variantAvailabilityMap, threw,
                   enhancedOptions, nodeEnv, consoleLog, rebuiltMap, messages, pc>>

NextToast == CartUpdate \/ RunEffect

SpecToast == InitToast /\ [][NextToast]_vars

(***************************************************************************)
(* Vocabulary of the properties.                                           *)
(***************************************************************************)
Built == pc \in {"built", "rendered"}

Rendered == pc = "rendered"

Variants == allVariantProducts.items

VariantOffers(v) == IF v.hasOffers THEN v.offers ELSE <<>>

\* variant i is stored under key k
Writes(i, k) ==
    \/ Variants[i].name = k
    \/ normalizeKeys /\ normalizeVariantName(Variants[i].name) = k

\* the variant whose decision key k holds: the last one stored under it
Source(k) ==
    Variants[CHOOSE i \in 1..Len(Variants) :
                /\ Writes(i, k)
                /\ \A j \in (i + 1)..Len(Variants) : ~Writes(j, k)]

Keys == {k \in DOMAIN variantAvailabilityMap : \E i \in 1..Len(Variants) : Writes(i, k)}

\* the canonical offer behind key k
Canonical(k) == SelectOffer(VariantOffers(Source(k)))

\* the price the decision is made on: the variant's offers.lowPrice
Price(v) == IF v.hasOffers THEN v.lowPrice ELSE Undefined

Flags(d) == <<d.isAvailable, d.isLowStock, d.isPreOrder, d.isBackOrder>>

\* a label no catalog variant matches, exactly or after trimming and case folding
Unmatched(label) ==
    \A i \in 1..Len(Variants) :
        normalizeVariantName(Variants[i].name) # normalizeVariantName(label)

\* what the consumers of the map read for a label: its entry, or the fail-safe
FailSafe == [isAvailable |-> TRUE, isLowStock |-> FALSE]

DecisionFor(label) ==
    IF label \in DOMAIN variantAvailabilityMap
    THEN variantAvailabilityMap[label]
    ELSE FailSafe

HasPreferred(offers) ==
    /\ preferredSellerId # UndefinedStr
    /\ \E j \in 1..Len(offers) : offers[j].seller = preferredSellerId

(***************************************************************************)
(* C3: offer selection is by preference then position: none for an empty   *)
(* list; an offer of the preferred seller when one is set and present,     *)
(* wherever it stands; otherwise the first offer as received.              *)
(***************************************************************************)
C3_OfferSelection ==
    \A i \in 1..Len(Variants) :
        LET offers == VariantOffers(Variants[i])
            chosen == SelectOffer(offers)
        IN  /\ offers = <<>> => ~chosen.present
            /\ HasPreferred(offers) =>
                  chosen.present /\ chosen.seller = preferredSellerId
            /\ (offers # <<>> /\ ~HasPreferred(offers)) => chosen = offers[1]

C3_Witness ==
    /\ Built
    /\ Len(Variants) = 1
    /\ LET offers == VariantOffers(Variants[1])
       IN  /\ Len(offers) = 2
           /\ offers[1].seller = "2"
           /\ offers[1].availability = InStock
           /\ offers[2].seller = preferredSellerId
           /\ offers[2].availability = OutOfStock
           /\ variantAvailabilityMap[Variants[1].name].availability = OutOfStock

(***************************************************************************)
(* C4: an option value that matches no catalog variant gets the default of *)
(* the configured missingDataPolicy: selectable with no flag under         *)
(* Optimistic, disabled under Pessimistic.                                 *)
(***************************************************************************)
C4_Original_PolicyDefault ==
    Rendered =>
        \A i \in 1..Len(options) :
            Unmatched(options[i]) =>
                /\ missingDataPolicy = "Optimistic" =>
                      ~enhancedOptions[i].disabled /\ ~enhancedOptions[i].lowStock
                /\ missingDataPolicy = "Pessimistic" => enhancedOptions[i].disabled

\* C4 as amended: an option value that matches no catalog variant has no
\* entry in the map and is left selectable, without low-stock marker,
\* whatever policy is configured.
C4_UnmatchedIsSelectable ==
    Rendered =>
        \A i \in 1..Len(options) :
            Unmatched(options[i]) =>
                /\ options[i] \notin DOMAIN variantAvailabilityMap
                /\ ~enhancedOptions[i].disabled
                /\ ~enhancedOptions[i].lowStock

C4_Witness ==
    /\ Rendered
    /\ missingDataPolicy = "Pessimistic"
    /\ Len(Variants) > 0
    /\ \E i \in 1..Len(options) :
          /\ Unmatched(options[i])
          /\ ~enhancedOptions[i].disabled
    /\ \E i \in 1..Len(options) : enhancedOptions[i].disabled

NoFlags(d) == ~d.isAvailable /\ ~d.isLowStock /\ ~d.isPreOrder /\ ~d.isBackOrder

(***************************************************************************)
(* C5: a variant present with an empty or absent offer list is             *)
(* unavailable with no flag set, status Unknown, quantity 0 and price 0.   *)
(***************************************************************************)
C5_Original_EmptyOffers ==
    Built =>
        \A k \in Keys :
            VariantOffers(Source(k)) = <<>> =>
                LET d == variantAvailabilityMap[k]
                IN  /\ NoFlags(d)
                    /\ d.availability = ""
                    /\ d.quantity = 0
                    /\ d.lowPrice = 0

\* C5 as amended: ... status Unknown, quantity 0, and as price the variant's
\* offers.lowPrice, which is 0 when the variant has no offers object.
C5_EmptyOffersUnavailable ==
    Built =>
        \A k \in Keys :
            VariantOffers(Source(k)) = <<>> =>
                LET d == variantAvailabilityMap[k]
                    v == Source(k)
                IN  /\ NoFlags(d)
                    /\ d.availability = ""
                    /\ d.quantity = 0
                    /\ d.lowPrice = (IF Price(v) = Undefined THEN 0 ELSE Price(v))

C5_Witness ==
    /\ Built
    /\ \E k \in Keys :
          /\ Source(k).hasOffers
          /\ VariantOffers(Source(k)) = <<>>
          /\ variantAvailabilityMap[k].lowPrice = 1
          /\ ~variantAvailabilityMap[k].isAvailable

OptionValueSet == {options[i] : i \in 1..Len(options)}

(***************************************************************************)
(* C7: the map holds exactly one decision for every variant name of the    *)
(* catalog response, also when a name occurs twice or two names share a    *)
(* normalized form, and every key of the map is a variant name, the        *)
(* normalized form of one, or an option value.                             *)
(***************************************************************************)
C7_MapCoversVariants ==
    Built =>
        /\ \A i \in 1..Len(Variants) :
              /\ Variants[i].name \in DOMAIN variantAvailabilityMap
              /\ \E j \in 1..Len(Variants) :
                    /\ Writes(j, Variants[i].name)
                    /\ variantAvailabilityMap[Variants[i].name]
                          = VariantAvailability(Variants[j])
        /\ \A k \in DOMAIN variantAvailabilityMap :
              \/ \E i \in 1..Len(Variants) :
                    \/ k = Variants[i].name
                    \/ k = normalizeVariantName(Variants[i].name)
              \/ k \in OptionValueSet
        /\ Cardinality(DOMAIN variantAvailabilityMap)
              <= 2 * Cardinality({Variants[i].name : i \in 1..Len(Variants)})

C7_Witness ==
    /\ Built
    /\ normalizeKeys
    /\ Len(Variants) = 2
    /\ Variants[1].name = LowerRed
    /\ Variants[2].name = Red
    /\ Variants[1].offers # Variants[2].offers
    /\ DOMAIN variantAvailabilityMap = {Red, LowerRed}

C9_DecoratorMapsDecision ==
    Rendered =>
        /\ Len(enhancedOptions) = Len(options)
        /\ \A i \in 1..Len(options) :
              /\ enhancedOptions[i].value = options[i]
              /\ enhancedOptions[i].disabled = ~DecisionFor(options[i]).isAvailable
              /\ enhancedOptions[i].lowStock = DecisionFor(options[i]).isLowStock

C9_Witness ==
    /\ Rendered
    /\ \E i, j \in 1..Len(options) :
          /\ options[i] \in DOMAIN variantAvailabilityMap
          /\ options[j] \in DOMAIN variantAvailabilityMap
          /\ enhancedOptions[i].disabled
          /\ ~enhancedOptions[i].lowStock
          /\ ~enhancedOptions[j].disabled
          /\ enhancedOptions[j].lowStock

KnownStatuses == {InStock, OutOfStock, PreOrder, BackOrder}

NeverFails == ~threw /\ pc # "failed"

CompleteMap ==
    /\ Built => \A i \in 1..Len(Variants) :
                    Variants[i].name \in DOMAIN variantAvailabilityMap
    /\ Rendered => Len(enhancedOptions) = Len(options)

\* a malformed field replaced by the value an unknown field classifies as
ZeroMalformedOffer(o) ==
    [o EXCEPT !.availability = IF @ \in KnownStatuses THEN @ ELSE UndefinedStr,
              !.quantity = IF @ = NotANumber THEN 0 ELSE @]

ZeroMalformed(v) ==
    [v EXCEPT !.lowPrice = IF @ = NotANumber THEN 0 ELSE @,
              !.offers = [i \in 1..Len(@) |-> ZeroMalformedOffer(@[i])]]

MatchesNormalized(j, label) ==
    normalizeVariantName(Variants[j].name) = normalizeVariantName(label)

C12_NormalizedMatching ==
    Rendered =>
        \A i \in 1..Len(options) :
            IF normalizeKeys
            THEN (\E j \in 1..Len(Variants) : MatchesNormalized(j, options[i]))
                 => /\ options[i] \in DOMAIN variantAvailabilityMap
                    /\ \E j \in 1..Len(Variants) :
                          /\ MatchesNormalized(j, options[i])
                          /\ enhancedOptions[i].disabled
                                = ~VariantAvailability(Variants[j]).isAvailable
            ELSE options[i] \in DOMAIN variantAvailabilityMap
                 <=> \E j \in 1..Len(Variants) : Variants[j].name = options[i]

(***************************************************************************)
(* C13: in every decision of the map, isLowStock, isPreOrder and           *)
(* isBackOrder are true only if isAvailable is true.                       *)
(***************************************************************************)
C13_FlagsImplyAvailable ==
    Built =>
        \A k \in DOMAIN variantAvailabilityMap :
            LET d == variantAvailabilityMap[k]
            IN  (d.isLowStock \/ d.isPreOrder \/ d.isBackOrder) => d.isAvailable

\* the offer the selection policy designates: the first offer of the
\* preferred seller if there is one, else the first offer
ExpectedOffer(offers) ==
    IF offers = <<>> THEN NoOffer
    ELSE IF HasPreferred(offers)
    THEN offers[CHOOSE j \in 1..Len(offers) :
                    /\ offers[j].seller = preferredSellerId
                    /\ \A h \in 1..(j - 1) : offers[h].seller # preferredSellerId]
    ELSE offers[1]

(***************************************************************************)
(* C14: the status, quantity and price recorded in a decision are those of *)
(* the canonical offer (the preferred seller's offer if present, else the  *)
(* first offer), not of another offer and not a variant-level aggregate    *)
(* such as the lowest price; 0, Unknown and 0 when absent.                 *)
(***************************************************************************)
C14_Original_ResolvedFromOffer ==
    Built =>
        \A k \in Keys :
            LET offer == ExpectedOffer(VariantOffers(Source(k)))
                d == variantAvailabilityMap[k]
            IN  /\ d.availability
                      = (IF offer.availability = UndefinedStr THEN "" ELSE offer.availability)
                /\ d.quantity = (IF offer.quantity = Undefined THEN 0 ELSE offer.quantity)
                /\ d.lowPrice = (IF offer.price = Undefined THEN 0 ELSE offer.price)

\* C14 as amended: the status and quantity recorded in a decision and used
\* to classify it are those of the canonical offer (the preferred seller's
\* offer if present, else the first offer), Unknown and 0 when absent, the
\* quantity falling back to that offer's inventoryLevel where the first
\* offer is taken without seller preference; the price recorded and
\* classified on is the variant's offers.lowPrice (0 when absent), a
\* variant-level aggregate, and not the price of the canonical offer.
C14_ResolvedFields ==
    Built =>
        \A k \in Keys :
            LET offer == ExpectedOffer(VariantOffers(Source(k)))
                d == variantAvailabilityMap[k]
            IN  /\ d.availability
                      = (IF offer.availability = UndefinedStr THEN "" ELSE offer.availability)
                /\ d.quantity
                      = (IF offer.quantity # Undefined THEN offer.quantity
                         ELSE IF preferredSellerId = UndefinedStr
                                 /\ offer.inventoryLevel # Undefined
                         THEN offer.inventoryLevel
                         ELSE 0)
                /\ d.lowPrice
                      = (IF Price(Source(k)) = Undefined THEN 0 ELSE Price(Source(k)))

C14_Witness ==
    /\ Built
    /\ Len(Variants) = 1
    /\ LET offers == VariantOffers(Variants[1])
           d == variantAvailabilityMap[Variants[1].name]
       IN  /\ Len(offers) = 2
           /\ offers[1].seller = "2"
           /\ offers[1].price = 1
           /\ offers[2].seller = preferredSellerId
           /\ offers[2].price = 0
           /\ d.availability = offers[2].availability
           /\ d.quantity = offers[2].quantity
           /\ d.lowPrice = 1

(***************************************************************************)
(* C15: under Exact and under TrimCaseFold a label string-equal to a       *)
(* variant's name resolves to that variant's own decision, for every order *)
(* of the variant list: the normalized alias of another variant never      *)
(* replaces the entry of a variant whose own name is that alias.           *)
(***************************************************************************)
C15_OwnKeyOwnDecision ==
    Built =>
        \A i \in 1..Len(Variants) :
            (\A j \in 1..Len(Variants) : j # i => Variants[j].name # Variants[i].name)
            => variantAvailabilityMap[Variants[i].name] = VariantAvailability(Variants[i])

====
